---- MODULE Spec2Model ----
(***************************************************************************)
(* A model of the fastnumbers classification engine:                       *)
(*   - the verdict functions of src/src/cpp/implementation.cpp             *)
(*     (collect_type, resolve_types, float_check_impl, int_check_impl,     *)
(*     type_query_impl), checked under SpecResolve;                        *)
(*   - the character scanner string_contains_non_overflowing_float with    *)
(*     the macros of src/include/parsing.h, checked under SpecScan.        *)
(***************************************************************************)
EXTENDS Integers, Sequences, FiniteSets, TLC

VARIABLES
    \* ---- verdict functions (implementation.cpp) ----
    pc,        \* "start" before the call, "done" after it ("idle": no call)
    fn,        \* the entry point that ran: "none" before the call
    input,     \* the Python object handed in: [kind, pytype, bits]
    args,      \* the entry point's scalar arguments
    options,   \* the UserOptions the entry point built
    flags,     \* the NumberFlags collect_type returned
    local,     \* the locals resolve_types filled in, and found_type
    ret,       \* the value returned to Python
    resolver,  \* the Resolver's actions, as do_resolve set them
    payload,   \* what collect_payload handed to Resolver::resolve
    \* ---- scanner (parsing.h, string_contains_non_overflowing_float) ----
    spc,       \* "start", "stripped", "ready", "done" ("idle": no scan)
    text,      \* the characters of the input string, without the NUL
    allow_underscores, \* the option float_conv_impl passes on
    buf,       \* the characters of the buffer being scanned, without the NUL
    start,     \* the start cursor, as an index into buf (1 = first character)
    end,       \* the end cursor, as an index into buf (one past the range)
    sret,      \* the scanner's return value
    \* ---- the same calls, statement by statement ----
    frames,    \* the stack frames of a scan and of a resolve_types call
    \* ---- iteration (iteration.hpp, iteration_impl, array_impl) ----
    ipc,       \* "start", "execute", "begin", "loop", "returned", "thrown"
    prog,      \* the entry point that runs: "none" before the call
    iterable,  \* the Python iterable handed in, and how far it is consumed
    man,       \* the IterableManager's members
    it,        \* the ItemIterator of the range-for loop
    lb,        \* the ListBuilder's members
    arr,       \* the output buffer and the ArrayPopulator
    log        \* what happened so far: conversions, references held

vars == <<pc, fn, input, args, options, flags, local, ret, resolver, payload,
          spc, text, allow_underscores, buf, start, end, sret,
          frames, ipc, prog, iterable, man, it, lb, arr, log>>

rvars == <<pc, fn, input, args, options, flags, local, ret, resolver, payload>>
svars == <<spc, text, allow_underscores, buf, start, end, sret>>
ivars == <<ipc, prog, iterable, man, it, lb, arr, log>>
ovars == <<frames, ivars>>

-----------------------------------------------------------------------------
(* NumberType: the bits of a NumberFlags descriptor.  A descriptor is the   *)
(* set of the bits that are set; INVALID is the empty descriptor.           *)

ContentBits == {"Integer", "Float", "IntLike", "Infinity", "NaN"}
OriginBits == {"FromStr", "FromUni", "FromNum"}
INVALID == {}

(* Selectors: the sentinel objects the Python layer passes for inf, nan and *)
(* consider.  NULLPTR stands for a C++ nullptr argument.                    *)
ALLOWED == "ALLOWED"
DISALLOWED == "DISALLOWED"
NUMBER_ONLY == "NUMBER_ONLY"
STRING_ONLY == "STRING_ONLY"
NULLPTR == "nullptr"
Selectors == {ALLOWED, DISALLOWED, NUMBER_ONLY, STRING_ONLY}

(* UserType: the target types the check functions are asked about.          *)
REAL == "REAL"
FLOAT == "FLOAT"
INT == "INT"
INTLIKE == "INTLIKE"

(* The Python types a type query can answer with.                           *)
PyLong_Type == "int"
PyFloat_Type == "float"
Py_None == "None"
Py_True == "True"
Py_False == "False"
PyBool(b) == IF b THEN Py_True ELSE Py_False

(* The objects handed in.  kind is what TextExtractor finds (a character    *)
(* array, a single unicode character, or not text); pytype is Py_TYPE of    *)
(* the object; bits are the content bits the Evaluator finds in it.         *)
Kinds == {<<"text", "str">>, <<"unicode", "str">>,
          <<"number", "int">>, <<"number", "float">>, <<"number", "list">>}

Inputs == {[kind |-> k[1], pytype |-> k[2], bits |-> b] :
              k \in Kinds, b \in SUBSET ContentBits}

(* std::numeric_limits<int>::min(): the base argument that stands for "no   *)
(* base was given".                                                         *)
INT_MIN == -2147483647 - 1

(* UserOptions as default-constructed, and its setters.  Single unicode     *)
(* numerals are allowed until set_unicode_allowed says otherwise: the       *)
(* float entry points, which take them, never call it, and the "reduced"    *)
(* entry points call it with false to turn them off.                        *)
DefaultOptions ==
    [allow_inf_str |-> FALSE, allow_inf_num |-> FALSE,
     allow_nan_str |-> FALSE, allow_nan_num |-> FALSE,
     coerce |-> FALSE, underscores_allowed |-> FALSE, base |-> 10,
     default_base |-> TRUE, unicode_allowed |-> TRUE]

set_inf_allowed(o, sel) ==
    [o EXCEPT !.allow_inf_str = sel \in {ALLOWED, STRING_ONLY},
              !.allow_inf_num = sel \in {ALLOWED, NUMBER_ONLY}]

set_nan_allowed(o, sel) ==
    [o EXCEPT !.allow_nan_str = sel \in {ALLOWED, STRING_ONLY},
              !.allow_nan_num = sel \in {ALLOWED, NUMBER_ONLY}]

set_coerce(o, b) == [o EXCEPT !.coerce = b]
set_underscores_allowed(o, b) == [o EXCEPT !.underscores_allowed = b]
set_unicode_allowed(o, b) == [o EXCEPT !.unicode_allowed = b]
set_base(o, b) ==
    [o EXCEPT !.default_base = (b = INT_MIN),
              !.base = IF b = INT_MIN THEN 10 ELSE b]
is_default_base(o) == o.default_base

(* Evaluator<Parser>::number_type(): the descriptor of an object is its     *)
(* content bits plus the origin bit of the parser that read it.  The        *)
(* UnicodeParser finds nothing in a single character when the options do    *)
(* not allow unicode numerals; it does not look at the base.                *)
number_type(obj, o) ==
    CASE obj.kind = "text" -> obj.bits \cup {"FromStr"}
      [] obj.kind = "unicode" ->
            IF o.unicode_allowed THEN obj.bits \cup {"FromUni"} ELSE INVALID
      [] OTHER -> obj.bits \cup {"FromNum"}

(* collect_type: implementation.cpp 61-88.                                  *)
collect_type(obj, o, consider) ==
    LET num_only == consider = NUMBER_ONLY
        str_only == consider = STRING_ONLY
        is_text == obj.kind = "text"
        is_unicode_character == obj.kind = "unicode"
        is_non_text == obj.kind = "number"
    IN  IF num_only /\ (is_text \/ is_unicode_character) THEN INVALID
        ELSE IF str_only /\ is_non_text THEN INVALID
        ELSE number_type(obj, o)

(* Variants of resolve_types with one slip each, used to test that the      *)
(* properties below depend on it.                                           *)
\* the numeric allowances are consulted whatever the origin is
resolve_types_any_origin(f, o) ==
    LET from_str == (f \cap {"FromStr", "FromUni"}) # {}
        no_inf == (from_str /\ ~o.allow_inf_str) \/ ~o.allow_inf_num
        no_nan == (from_str /\ ~o.allow_nan_str) \/ ~o.allow_nan_num
        bad_inf == no_inf /\ "Infinity" \in f
        bad_nan == no_nan /\ "NaN" \in f
    IN  [from_str |-> from_str,
         ok_float |-> "Float" \in f /\ ~(bad_inf \/ bad_nan),
         ok_int |-> "Integer" \in f,
         ok_intlike |-> o.coerce /\ "IntLike" \in f,
         found_type |-> NULLPTR]

\* the IntLike bit counts without coercion
resolve_types_always_coerce(f, o) ==
    LET from_str == (f \cap {"FromStr", "FromUni"}) # {}
        from_num == "FromNum" \in f
        no_inf == (from_str /\ ~o.allow_inf_str) \/ (from_num /\ ~o.allow_inf_num)
        no_nan == (from_str /\ ~o.allow_nan_str) \/ (from_num /\ ~o.allow_nan_num)
        bad_inf == no_inf /\ "Infinity" \in f
        bad_nan == no_nan /\ "NaN" \in f
    IN  [from_str |-> from_str,
         ok_float |-> "Float" \in f /\ ~(bad_inf \/ bad_nan),
         ok_int |-> "Integer" \in f,
         ok_intlike |-> "IntLike" \in f,
         found_type |-> NULLPTR]

(* resolve_types: implementation.cpp 290-315.                               *)
resolve_types(f, o) ==
    LET from_str == (f \cap {"FromStr", "FromUni"}) # {}
        from_num == "FromNum" \in f
        no_inf_str == from_str /\ ~o.allow_inf_str
        no_nan_str == from_str /\ ~o.allow_nan_str
        no_inf_num == from_num /\ ~o.allow_inf_num
        no_nan_num == from_num /\ ~o.allow_nan_num
        no_inf == no_inf_str \/ no_inf_num
        no_nan == no_nan_str \/ no_nan_num
        bad_inf == no_inf /\ "Infinity" \in f
        bad_nan == no_nan /\ "NaN" \in f
    IN  [from_str |-> from_str,
         ok_float |-> "Float" \in f /\ ~(bad_inf \/ bad_nan),
         ok_int |-> "Integer" \in f,
         ok_intlike |-> o.coerce /\ "IntLike" \in f,
         found_type |-> NULLPTR]

-----------------------------------------------------------------------------
(* The entry points.  Each takes the object chosen in Init and draws its    *)
(* other arguments.                                                         *)

NoLocal == [from_str |-> FALSE, ok_float |-> FALSE, ok_int |-> FALSE,
            ok_intlike |-> FALSE, found_type |-> NULLPTR]

NoArgs == [consider |-> NULLPTR, ntype |-> REAL, strict |-> FALSE,
           allowed_types |-> [null |-> TRUE, types |-> {}]]

(* The base argument: INT_MIN when the caller gave none.                    *)
Bases == {INT_MIN, 2, 10, 16}

(* allowed_types: nullptr (null), or a Python sequence of types.            *)
AllowedTypes ==
    {[null |-> TRUE, types |-> {}]} \cup
    {[null |-> FALSE, types |-> T] :
        T \in {{}, {"int"}, {"float"}, {"int", "float"}, {"str"}, {"list"}}}

\* a variant that admits an integer for FLOAT whatever its origin
float_check_result_any_origin(f, o, ntype, strict) ==
    LET t == resolve_types(f, o)
        ok_int == IF ntype = REAL THEN t.ok_int ELSE (~strict /\ t.ok_int)
    IN  PyBool(t.ok_float \/ ok_int)

(* float_check_impl: implementation.cpp 318-346.                            *)
float_check_result(f, o, ntype, strict) ==
    LET t == resolve_types(f, o)
        ok_int == IF ntype = REAL THEN t.ok_int
                  ELSE (t.from_str /\ ~strict /\ t.ok_int)
    IN  PyBool(t.ok_float \/ ok_int)

float_check_impl ==
    /\ pc = "start"
    /\ \E inf \in Selectors, nan \in Selectors,
          consider \in {NULLPTR, NUMBER_ONLY, STRING_ONLY},
          ntype \in {REAL, FLOAT}, au \in BOOLEAN, strict \in BOOLEAN :
          LET o == set_nan_allowed(
                     set_inf_allowed(
                       set_underscores_allowed(DefaultOptions, au), inf), nan)
              f == collect_type(input, o, consider)
          IN  /\ options' = o
              /\ flags' = f
              /\ args' = [NoArgs EXCEPT !.consider = consider,
                                        !.ntype = ntype, !.strict = strict]
              /\ local' = [resolve_types(f, o) EXCEPT !.found_type = NULLPTR]
              /\ ret' = float_check_result(f, o, ntype, strict)
    /\ fn' = "float_check_impl"
    /\ pc' = "done"
    /\ UNCHANGED <<input, resolver, payload, svars, ovars>>

(* int_check_impl: implementation.cpp 349-372.                              *)
int_check_result(f, o) ==
    LET t == resolve_types(f, o)
    IN  PyBool(t.ok_int \/ t.ok_intlike)

int_check_impl ==
    /\ pc = "start"
    /\ \E consider \in {NULLPTR, NUMBER_ONLY, STRING_ONLY},
          ntype \in {INT, INTLIKE}, au \in BOOLEAN, base \in Bases :
          LET o == set_underscores_allowed(
                     set_coerce(set_base(DefaultOptions, base),
                                ntype = INTLIKE), au)
              f == collect_type(input, o, consider)
          IN  /\ options' = o
              /\ flags' = f
              /\ args' = [NoArgs EXCEPT !.consider = consider, !.ntype = ntype]
              /\ local' = [resolve_types(f, o) EXCEPT !.found_type = NULLPTR]
              /\ ret' = int_check_result(f, o)
    /\ fn' = "int_check_impl"
    /\ pc' = "done"
    /\ UNCHANGED <<input, resolver, payload, svars, ovars>>

\* a variant that tests the float verdict first
found_type_of_float_first(obj, f, o) ==
    LET t == resolve_types(f, o)
    IN  IF t.ok_float THEN PyFloat_Type
        ELSE IF t.ok_int \/ t.ok_intlike THEN PyLong_Type
        ELSE obj.pytype

(* type_query_impl: implementation.cpp 375-409.                             *)
found_type_of(obj, f, o) ==
    LET t == resolve_types(f, o)
    IN  IF t.ok_int \/ t.ok_intlike THEN PyLong_Type
        ELSE IF t.ok_float THEN PyFloat_Type
        ELSE obj.pytype

type_query_result(obj, f, o, allowed_types) ==
    LET found_type == found_type_of(obj, f, o)
    IN  IF ~allowed_types.null /\ found_type \notin allowed_types.types
        THEN Py_None
        ELSE found_type

type_query_impl ==
    /\ pc = "start"
    /\ \E inf \in Selectors, nan \in Selectors, allowed_types \in AllowedTypes,
          au \in BOOLEAN, coerce \in BOOLEAN :
          LET o == set_nan_allowed(
                     set_inf_allowed(
                       set_underscores_allowed(
                         set_coerce(DefaultOptions, coerce), au), inf), nan)
              f == collect_type(input, o, NULLPTR)
          IN  /\ options' = o
              /\ flags' = f
              /\ args' = [NoArgs EXCEPT !.allowed_types = allowed_types]
              /\ local' = [resolve_types(f, o) EXCEPT
                              !.found_type = found_type_of(input, f, o)]
              /\ ret' = type_query_result(input, f, o, allowed_types)
    /\ fn' = "type_query_impl"
    /\ pc' = "done"
    /\ UNCHANGED <<input, resolver, payload, svars, ovars>>

-----------------------------------------------------------------------------
(* The conversion entry points: float_conv_impl and int_conv_impl, each in  *)
(* its "full", "fuller" and "reduced" form, and the four do_resolve         *)
(* overloads they go through.                                               *)

(* Selectors::RAISE and Selectors::INPUT, and the other values a caller     *)
(* can pass as an action: a default value to return (a callable is          *)
(* handled like one: its result is returned).                               *)
RAISE == "RAISE"
INPUT == "INPUT"
FailActions == {RAISE, INPUT, "default"}
SpecialActions == {ALLOWED, RAISE, "default"}

(* What a payload holds: the converted value, or the category of failure.   *)
VALUE == "VALUE"
INF == "INF"
NAN == "NAN"
FAIL == "FAIL"
TYPE_ERROR == "TYPE_ERROR"

(* Resolver(input, options): every action is Raise until a setter is        *)
(* called.  overload records which do_resolve built the resolver.           *)
Resolver ==
    [inf |-> RAISE, nan |-> RAISE, fail |-> RAISE, type_error |-> RAISE,
     overload |-> "none"]

set_inf_action(r, a) == [r EXCEPT !.inf = a]
set_nan_action(r, a) == [r EXCEPT !.nan = a]
set_fail_action(r, a) == [r EXCEPT !.fail = a]
set_type_error_action(r, a) == [r EXCEPT !.type_error = a]

(* collect_payload: implementation.cpp 29-50.  The Evaluator puts the       *)
(* first category that applies into the payload: an object of the wrong     *)
(* type, no number found, an infinity, a NaN, and otherwise the value.      *)
collect_payload(obj, o, ntype) ==
    LET f == number_type(obj, o)
    IN  IF obj.kind = "number" /\ obj.pytype \notin {"int", "float"}
        THEN TYPE_ERROR
        ELSE IF f \cap ContentBits = {} THEN FAIL
        ELSE IF "Infinity" \in f THEN INF
        ELSE IF "NaN" \in f THEN NAN
        ELSE VALUE

(* Resolver::resolve: the action of the payload's category decides what     *)
(* is returned; Raise returns nullptr with the error set.                   *)
run_action(a) ==
    CASE a = RAISE -> NULLPTR
      [] a = INPUT -> "input"
      [] a = ALLOWED -> "value"
      [] OTHER -> a

resolve(r, p) ==
    CASE p = VALUE -> "value"
      [] p = INF -> run_action(r.inf)
      [] p = NAN -> run_action(r.nan)
      [] p = FAIL -> run_action(r.fail)
      [] p = TYPE_ERROR -> run_action(r.type_error)

\* a variant of the overload below that hands on_fail to the type error too
do_resolve_fail_also_type_error(on_fail) ==
    [set_type_error_action(set_fail_action(Resolver, on_fail), on_fail)
        EXCEPT !.overload = "fail"]

(* do_resolve(options, input, on_fail, ntype): implementation.cpp 159-166.  *)
do_resolve_fail(on_fail) ==
    [set_fail_action(Resolver, on_fail) EXCEPT !.overload = "fail"]

(* do_resolve(options, input, on_fail, on_type_error, ntype): 179-191.      *)
do_resolve_fail_type_error(on_fail, on_type_error) ==
    [set_type_error_action(set_fail_action(Resolver, on_fail), on_type_error)
        EXCEPT !.overload = "fail_type_error"]

(* do_resolve(options, input, on_fail, inf, nan, ntype): 102-116.           *)
do_resolve_fail_inf_nan(on_fail, inf, nan) ==
    [set_fail_action(set_nan_action(set_inf_action(Resolver, inf), nan), on_fail)
        EXCEPT !.overload = "fail_inf_nan"]

(* do_resolve(options, input, on_fail, on_type_error, inf, nan, ntype):     *)
(* implementation.cpp 131-147.                                              *)
do_resolve_all(on_fail, on_type_error, inf, nan) ==
    [set_type_error_action(
        set_fail_action(set_nan_action(set_inf_action(Resolver, inf), nan),
                        on_fail), on_type_error)
        EXCEPT !.overload = "all"]

\* what every conversion entry point does once it has its options and resolver
Converted(name, o, r, ntype) ==
    LET p == collect_payload(input, o, ntype)
    IN  /\ pc = "start"
        /\ options' = o
        /\ resolver' = r
        /\ payload' = p
        /\ ret' = resolve(r, p)
        /\ args' = [NoArgs EXCEPT !.ntype = ntype]
        /\ fn' = name
        /\ pc' = "done"
        /\ UNCHANGED <<input, flags, local, svars, ovars>>

(* "Full" float_conv_impl: implementation.cpp 194-208.                      *)
float_conv_impl_full ==
    \E on_fail \in FailActions, inf \in SpecialActions, nan \in SpecialActions,
       ntype \in {REAL, FLOAT}, au \in BOOLEAN, coerce \in BOOLEAN :
        Converted("float_conv_impl_full",
                  set_underscores_allowed(set_coerce(DefaultOptions, coerce), au),
                  do_resolve_fail_inf_nan(on_fail, inf, nan), ntype)

(* "Fuller" float_conv_impl: implementation.cpp 211-226.                    *)
float_conv_impl_fuller ==
    \E on_fail \in FailActions, on_type_error \in FailActions,
       inf \in SpecialActions, nan \in SpecialActions,
       ntype \in {REAL, FLOAT}, au \in BOOLEAN, coerce \in BOOLEAN :
        Converted("float_conv_impl_fuller",
                  set_underscores_allowed(set_coerce(DefaultOptions, coerce), au),
                  do_resolve_all(on_fail, on_type_error, inf, nan), ntype)

(* "Reduced" float_conv_impl: implementation.cpp 229-236.                   *)
float_conv_impl_reduced ==
    \E ntype \in {REAL, FLOAT}, coerce \in BOOLEAN :
        Converted("float_conv_impl_reduced",
                  set_underscores_allowed(
                    set_unicode_allowed(set_coerce(DefaultOptions, coerce), FALSE),
                    TRUE),
                  do_resolve_fail(RAISE), ntype)

(* "Full" int_conv_impl: implementation.cpp 239-252.                        *)
int_conv_impl_full ==
    \E on_fail \in FailActions, ntype \in {INT, INTLIKE},
       au \in BOOLEAN, base \in Bases :
        LET o1 == set_base(DefaultOptions, base)
            o2 == set_unicode_allowed(o1, is_default_base(o1))
        IN  Converted("int_conv_impl_full", set_underscores_allowed(o2, au),
                      do_resolve_fail(on_fail), ntype)

(* "Fuller" int_conv_impl: implementation.cpp 255-269.                      *)
int_conv_impl_fuller ==
    \E on_fail \in FailActions, on_type_error \in FailActions,
       ntype \in {INT, INTLIKE}, au \in BOOLEAN, base \in Bases :
        LET o1 == set_base(DefaultOptions, base)
            o2 == set_unicode_allowed(o1, is_default_base(o1))
        IN  Converted("int_conv_impl_fuller", set_underscores_allowed(o2, au),
                      do_resolve_fail_type_error(on_fail, on_type_error), ntype)

(* "Reduced" int_conv_impl: implementation.cpp 272-279.                     *)
int_conv_impl_reduced ==
    \E ntype \in {INT, INTLIKE}, base \in Bases :
        LET o1 == set_base(DefaultOptions, base)
            o2 == set_unicode_allowed(o1, FALSE)
        IN  Converted("int_conv_impl_reduced", set_underscores_allowed(o2, TRUE),
                      do_resolve_fail(RAISE), ntype)

NextConv ==
    \/ float_conv_impl_full
    \/ float_conv_impl_fuller
    \/ float_conv_impl_reduced
    \/ int_conv_impl_full
    \/ int_conv_impl_fuller
    \/ int_conv_impl_reduced

(* The frames of the statement-by-statement calls, when no such call runs.  *)
NoScanFrame ==
    [at |-> "idle", str |-> 1, valid |-> FALSE, ndigits |-> 0, ret |-> FALSE,
     hi |-> 0]

NoResolveFrame ==
    [at |-> "idle", from_str |-> FALSE, from_num |-> FALSE,
     no_inf |-> FALSE, no_nan |-> FALSE, bad_inf |-> FALSE, bad_nan |-> FALSE,
     ok_float |-> FALSE, ok_int |-> FALSE, ok_intlike |-> FALSE]

(* IterState, and the iteration objects when no iteration runs.             *)
STOP == "STOP"
CONTINUE == "CONTINUE"

NoManager ==
    [m_iterator |-> NULLPTR, m_fast_sequence |-> NULLPTR, m_index |-> 0,
     m_seq_size |-> 0, fast_items |-> <<>>]

NoArray == [got |-> 0, released |-> 0, format |-> NULLPTR, size |-> 0,
            placed |-> <<>>]

NoLog == [converted |-> <<>>, held |-> 0, extra |-> 0]

\* ItemIterator(nullptr), which is end(): the default payload and STOP
EndIterator == [m_payload |-> 0, m_state |-> STOP]

IInitIdle ==
    /\ ipc = "idle" /\ prog = "none"
    /\ iterable = [kind |-> "list", items |-> <<>>, hint |-> 0, pos |-> 0]
    /\ man = NoManager
    /\ it = EndIterator
    /\ lb = [m_list |-> <<>>, m_index |-> 0]
    /\ arr = NoArray
    /\ log = NoLog

OInitIdle ==
    /\ frames = [scan |-> NoScanFrame, res |-> NoResolveFrame]
    /\ IInitIdle

SInitIdle ==
    /\ spc = "idle"
    /\ text = <<>>
    /\ allow_underscores = FALSE
    /\ buf = <<>>
    /\ start = 1
    /\ end = 1
    /\ sret = FALSE

InitResolve ==
    /\ pc = "start"
    /\ fn = "none"
    /\ input \in Inputs
    /\ args = NoArgs
    /\ options = DefaultOptions
    /\ flags = INVALID
    /\ local = NoLocal
    /\ ret = NULLPTR
    /\ resolver = Resolver
    /\ payload = VALUE
    /\ SInitIdle
    /\ OInitIdle

NextResolve == float_check_impl \/ int_check_impl \/ type_query_impl

SpecResolve == InitResolve /\ [][NextResolve]_vars

(* The conversion entry points start from the same objects.                *)
SpecConv == InitResolve /\ [][NextConv]_vars

-----------------------------------------------------------------------------
(* The scanner.  A C string is modelled as the sequence of its characters;  *)
(* a char* is an index into it, and the terminating NUL is read at index    *)
(* Len + 1.  A character is a one-character string, Ord gives its code.     *)

NUL == "NUL"

Ord(c) ==
    CASE c = NUL -> 0
      [] c = "\t" -> 9   [] c = "\n" -> 10  [] c = "\r" -> 13
      [] c = " " -> 32   [] c = "+" -> 43   [] c = "-" -> 45
      [] c = "." -> 46   [] c = "0" -> 48   [] c = "1" -> 49
      [] c = "5" -> 53   [] c = "9" -> 57   [] c = "?" -> 63
      [] c = "A" -> 65   [] c = "E" -> 69   [] c = "F" -> 70
      [] c = "I" -> 73   [] c = "N" -> 78   [] c = "T" -> 84
      [] c = "Y" -> 89   [] c = "_" -> 95   [] c = "a" -> 97
      [] c = "e" -> 101  [] c = "f" -> 102  [] c = "i" -> 105
      [] c = "n" -> 110  [] c = "t" -> 116  [] c = "x" -> 120
      [] c = "y" -> 121

\* *(c) for a pointer i into the NUL-terminated string b
At(b, i) == IF i >= 1 /\ i <= Len(b) THEN b[i] ELSE NUL

\* a variant of is_white_space whose control range stops short of '\r'
is_white_space_short_range(c) ==
    c = " " \/ (Ord(c) >= Ord("\t") /\ Ord(c) < Ord("\r"))

\* a variant of is_valid_digit that takes the grouping separator for a digit
is_valid_digit_or_underscore(c) ==
    (Ord(c) >= Ord("0") /\ Ord(c) <= Ord("9")) \/ c = "_"

(* parsing.h 20-36: the character classes.                                  *)
is_white_space(c) == c = " " \/ (Ord(c) >= Ord("\t") /\ Ord(c) <= Ord("\r"))
is_valid_digit(c) == Ord(c) >= Ord("0") /\ Ord(c) <= Ord("9")
is_decimal(c) == c = "."
is_e_or_E(c) == c = "e" \/ c = "E"
is_n_or_N(c) == c = "n" \/ c = "N"
is_i_or_I(c) == c = "i" \/ c = "I"
is_negative_sign(c) == c = "-"
is_positive_sign(c) == c = "+"
is_sign(c) == is_negative_sign(c) \/ is_positive_sign(c)

(* parsing.h 39-46: the consumers; each gives the cursor after it.          *)
consume_python2_long_literal_lL == FALSE

RECURSIVE consume_white_space(_, _)
consume_white_space(b, str) ==
    IF is_white_space(At(b, str)) THEN consume_white_space(b, str + 1) ELSE str

\* a variant of consume_sign that consumes every sign it finds
RECURSIVE consume_sign_repeated(_, _)
consume_sign_repeated(b, str) ==
    IF is_sign(At(b, str)) THEN consume_sign_repeated(b, str + 1) ELSE str

consume_sign(b, str) == IF is_sign(At(b, str)) THEN str + 1 ELSE str

(* The memory strip_whitespace can read: the string, and below its first    *)
(* character the bytes pre[1], pre[2], ... of whatever precedes it.         *)
Mem(b, pre, i) ==
    IF i >= 1 THEN At(b, i)
    ELSE IF 1 - i <= Len(pre) THEN pre[1 - i]
    ELSE "?"

RECURSIVE retreat_white_space(_, _, _, _)
retreat_white_space(b, pre, str, e) ==
    IF is_white_space(Mem(b, pre, e)) /\ str # e
    THEN retreat_white_space(b, pre, str, e - 1)
    ELSE e

(* strip_whitespace: parsing.h 54-60.  length is the string's length        *)
(* without the NUL, so that end starts on the last character.               *)
strip_whitespace(b, str, length, pre) ==
    LET end0 == str + length - 1
        str1 == consume_white_space(b, str)
        end1 == retreat_white_space(b, pre, str1, end0)
    IN  [start |-> str1, end |-> end1 + 1]

(* case_insensitive_match (declared parsing.h 64-65): the characters at s   *)
(* start with t, letter case ignored.                                       *)
toupper(c) ==
    IF Ord(c) >= Ord("a") /\ Ord(c) <= Ord("y") THEN Ord(c) - 32 ELSE Ord(c)

RECURSIVE case_insensitive_match_from(_, _, _, _)
case_insensitive_match_from(b, s, t, k) ==
    IF k > Len(t) THEN TRUE
    ELSE IF toupper(At(b, s + k - 1)) # toupper(t[k]) THEN FALSE
    ELSE case_insensitive_match_from(b, s, t, k + 1)

case_insensitive_match(b, s, t) == case_insensitive_match_from(b, s, t, 1)

DBL_DIG == 15

RECURSIVE consume_digits(_, _)
consume_digits(b, str) ==
    IF is_valid_digit(At(b, str)) THEN consume_digits(b, str + 1) ELSE str

(* string_contains_non_overflowing_float: implementation.cpp 573-620.       *)
(* scan_float gives the locals at the return statement: the cursor str,     *)
(* valid, ndigits, and the value returned.                                  *)
scan_special(b, str, e) ==
    IF case_insensitive_match(b, str, <<"i", "n", "f">>)
    THEN LET s3 == str + 3
             s8 == IF case_insensitive_match(b, s3, <<"i", "n", "i", "t", "y">>)
                   THEN s3 + 5 ELSE s3
         IN  [special |-> TRUE, str |-> s8, valid |-> FALSE, ndigits |-> 0,
              ret |-> s8 = e]
    ELSE [special |-> TRUE, str |-> str + 3, valid |-> FALSE, ndigits |-> 0,
          ret |-> str + 3 = e]

\* variants of scan_number with one slip each
\* the final str == end test is left out
scan_number_no_end_test(b, str, e) ==
    LET s1 == consume_digits(b, str)
        n1 == s1 - str
        has_dot == ~consume_python2_long_literal_lL /\ is_decimal(At(b, s1))
        s2 == IF has_dot THEN consume_digits(b, s1 + 1) ELSE s1
        n2 == IF has_dot THEN s2 - (s1 + 1) ELSE 0
        ndigits == n1 + n2
        valid2 == ndigits > 0
        has_exp == ~consume_python2_long_literal_lL
                   /\ is_e_or_E(At(b, s2)) /\ valid2
        s3 == IF has_exp THEN consume_sign(b, s2 + 1) ELSE s2
        s4 == IF has_exp THEN consume_digits(b, s3) ELSE s2
        valid == IF has_exp THEN s4 > s3 ELSE valid2
    IN  [special |-> FALSE, str |-> s4, valid |-> valid, ndigits |-> ndigits,
         ret |-> valid /\ ndigits < DBL_DIG]

\* the exponent is entered without the "&& valid" test
scan_number_exp_unguarded(b, str, e) ==
    LET s1 == consume_digits(b, str)
        n1 == s1 - str
        has_dot == ~consume_python2_long_literal_lL /\ is_decimal(At(b, s1))
        s2 == IF has_dot THEN consume_digits(b, s1 + 1) ELSE s1
        n2 == IF has_dot THEN s2 - (s1 + 1) ELSE 0
        ndigits == n1 + n2
        valid2 == ndigits > 0
        has_exp == ~consume_python2_long_literal_lL /\ is_e_or_E(At(b, s2))
        s3 == IF has_exp THEN consume_sign(b, s2 + 1) ELSE s2
        s4 == IF has_exp THEN consume_digits(b, s3) ELSE s2
        valid == IF has_exp THEN s4 > s3 ELSE valid2
    IN  [special |-> FALSE, str |-> s4, valid |-> valid, ndigits |-> ndigits,
         ret |-> valid /\ ndigits < DBL_DIG /\ s4 = e]

\* valid is not reset to false on entering the exponent
scan_number_valid_not_reset(b, str, e) ==
    LET s1 == consume_digits(b, str)
        n1 == s1 - str
        has_dot == ~consume_python2_long_literal_lL /\ is_decimal(At(b, s1))
        s2 == IF has_dot THEN consume_digits(b, s1 + 1) ELSE s1
        n2 == IF has_dot THEN s2 - (s1 + 1) ELSE 0
        ndigits == n1 + n2
        valid2 == ndigits > 0
        has_exp == ~consume_python2_long_literal_lL
                   /\ is_e_or_E(At(b, s2)) /\ valid2
        s3 == IF has_exp THEN consume_sign(b, s2 + 1) ELSE s2
        s4 == IF has_exp THEN consume_digits(b, s3) ELSE s2
        valid == valid2
    IN  [special |-> FALSE, str |-> s4, valid |-> valid, ndigits |-> ndigits,
         ret |-> valid /\ ndigits < DBL_DIG /\ s4 = e]

scan_number(b, str, e) ==
    LET s1 == consume_digits(b, str)
        n1 == s1 - str
        has_dot == ~consume_python2_long_literal_lL /\ is_decimal(At(b, s1))
        s2 == IF has_dot THEN consume_digits(b, s1 + 1) ELSE s1
        n2 == IF has_dot THEN s2 - (s1 + 1) ELSE 0
        ndigits == n1 + n2
        valid2 == ndigits > 0
        has_exp == ~consume_python2_long_literal_lL
                   /\ is_e_or_E(At(b, s2)) /\ valid2
        s3 == IF has_exp THEN consume_sign(b, s2 + 1) ELSE s2
        s4 == IF has_exp THEN consume_digits(b, s3) ELSE s2
        valid == IF has_exp THEN s4 > s3 ELSE valid2
    IN  [special |-> FALSE, str |-> s4, valid |-> valid, ndigits |-> ndigits,
         ret |-> valid /\ ndigits < DBL_DIG /\ s4 = e]

scan_float(b, str0, e) ==
    LET str == consume_sign(b, str0)
    IN  IF (is_n_or_N(At(b, str)) \/ is_i_or_I(At(b, str)))
           /\ (\/ case_insensitive_match(b, str, <<"i", "n", "f">>)
               \/ case_insensitive_match(b, str, <<"n", "a", "n">>))
        THEN scan_special(b, str, e)
        ELSE scan_number(b, str, e)

string_contains_non_overflowing_float(b, str, e) == scan_float(b, str, e).ret

(* Buffer::remove_valid_underscores, reached through text_parser when       *)
(* underscores are allowed: an underscore with a digit on each side inside  *)
(* the range is dropped, every other underscore stays in place.             *)
valid_underscore(b, str, e, i) ==
    /\ i > str
    /\ i + 1 < e
    /\ b[i] = "_"
    /\ is_valid_digit(b[i - 1])
    /\ is_valid_digit(b[i + 1])

RECURSIVE keep_from(_, _, _, _)
keep_from(b, str, e, i) ==
    IF i > Len(b) THEN <<>>
    ELSE (IF valid_underscore(b, str, e, i) THEN <<>> ELSE <<b[i]>>)
         \o keep_from(b, str, e, i + 1)

remove_valid_underscores(b, str, e) ==
    LET kept == keep_from(b, str, e, 1)
    IN  [buf |-> kept, end |-> e - (Len(b) - Len(kept))]

-----------------------------------------------------------------------------
(* The strings scanned: every string of at most MaxLen characters of        *)
(* CharPieces, and every concatenation of at most MaxWords of WordPieces.   *)

MaxLen == 5
MaxWords == 3
PreLen == 2

CharPieces == {<<"1">>, <<".">>, <<"e">>, <<"+">>, <<"-">>, <<"_">>}

WordPieces ==
    {<<"+">>, <<"-">>, <<"1">>, <<"E">>, <<" ">>, <<"\t">>, <<"\r">>,
     <<"i", "n", "f">>, <<"I", "n", "F">>, <<"i", "n", "i", "t", "y">>,
     <<"n", "a", "n">>, <<"N", "A", "n">>,
     <<"i", "n">>, <<"i", "n", "i", "t">>, <<"y">>, <<"a">>}

RECURSIVE Flatten(_)
Flatten(ws) == IF ws = <<>> THEN <<>> ELSE Head(ws) \o Flatten(Tail(ws))

Strings(P, n) == {Flatten(ws) : ws \in UNION {[1..k -> P] : k \in 0..n}}

CharStrings == Strings(CharPieces, MaxLen)
WordStrings == Strings(WordPieces, MaxWords)

(* The bytes below the string that a backward walk can meet: each is a      *)
(* whitespace byte or some other byte, the farthest one is no whitespace.   *)
PreMems == {m \in [1..PreLen -> {" ", "?"}] : m[PreLen] = "?"}

RInitIdle ==
    /\ pc = "idle"
    /\ fn = "none"
    /\ input = [kind |-> "text", pytype |-> "str", bits |-> {}]
    /\ args = NoArgs
    /\ options = DefaultOptions
    /\ flags = INVALID
    /\ local = NoLocal
    /\ ret = NULLPTR
    /\ resolver = Resolver
    /\ payload = VALUE

InitScan ==
    /\ spc = "start"
    /\ (text \in CharStrings \/ text \in WordStrings)
    /\ allow_underscores \in BOOLEAN
    /\ OInitIdle
    /\ buf = text
    /\ start = 1
    /\ end = 1
    /\ sret = FALSE
    /\ RInitIdle

(* The caller strips the string in place: strip_whitespace(str, end, len).  *)
StripWhitespace ==
    /\ spc = "start"
    /\ \E pre \in PreMems :
          LET r == strip_whitespace(buf, 1, Len(buf), pre)
          IN  /\ start' = r.start
              /\ end' = r.end
    /\ spc' = "stripped"
    /\ UNCHANGED <<text, allow_underscores, buf, sret, rvars, ovars>>

(* The parser is built on the range with the valid underscores removed      *)
(* when the options allow underscores (float_conv_impl 206, 224).           *)
RemoveUnderscores ==
    /\ spc = "stripped"
    /\ LET r == IF allow_underscores
                THEN remove_valid_underscores(buf, start, end)
                ELSE [buf |-> buf, end |-> end]
       IN  /\ buf' = r.buf
           /\ end' = r.end
    /\ spc' = "ready"
    /\ UNCHANGED <<text, allow_underscores, start, sret, rvars, ovars>>

(* The scan of the range [start, end).                                      *)
ScanFloat ==
    /\ spc = "ready"
    /\ sret' = string_contains_non_overflowing_float(buf, start, end)
    /\ spc' = "done"
    /\ UNCHANGED <<text, allow_underscores, buf, start, end, rvars, ovars>>

NextScan == StripWhitespace \/ RemoveUnderscores \/ ScanFloat

SpecScan == InitScan /\ [][NextScan]_vars

-----------------------------------------------------------------------------
(* The same two functions statement by statement, each in its own stack     *)
(* frame: string_contains_non_overflowing_float keeps its cursor str and    *)
(* its locals valid and ndigits in the frame, resolve_types its "Boolean    *)
(* chunks" and the four caller's variables its reference parameters name.   *)
(* hi is the highest index the scan has read so far.                        *)

Max(a, b) == IF a >= b THEN a ELSE b

\* the last index case_insensitive_match reads when comparing t at s
RECURSIVE last_compared(_, _, _, _)
last_compared(b, s, t, k) ==
    IF k >= Len(t) \/ toupper(At(b, s + k - 1)) # toupper(t[k])
    THEN s + k - 1
    ELSE last_compared(b, s, t, k + 1)

\* a variant of scan_step whose exponent loop counts its digits too
scan_step_counting_exponent(fr, b, e) ==
    LET s == fr.scan
        c == At(b, s.str)
        seen == [s EXCEPT !.hi = Max(s.hi, s.str)]
        matched(t) == [s EXCEPT !.hi = Max(s.hi, last_compared(b, s.str, t, 1))]
        long_literal == consume_python2_long_literal_lL
        next ==
          CASE s.at = "sign" ->
                 [seen EXCEPT !.str = consume_sign(b, s.str), !.at = "special"]
            [] s.at = "special" ->
                 [seen EXCEPT !.at = IF is_n_or_N(c) \/ is_i_or_I(c)
                                     THEN "inf" ELSE "digits"]
            [] s.at = "inf" ->
                 IF case_insensitive_match(b, s.str, <<"i", "n", "f">>)
                 THEN [matched(<<"i", "n", "f">>) EXCEPT
                          !.str = @ + 3, !.at = "inity"]
                 ELSE [matched(<<"i", "n", "f">>) EXCEPT !.at = "nan"]
            [] s.at = "inity" ->
                 IF case_insensitive_match(b, s.str, <<"i", "n", "i", "t", "y">>)
                 THEN [matched(<<"i", "n", "i", "t", "y">>) EXCEPT
                          !.str = @ + 5, !.at = "return_special"]
                 ELSE [matched(<<"i", "n", "i", "t", "y">>) EXCEPT
                          !.at = "return_special"]
            [] s.at = "nan" ->
                 IF case_insensitive_match(b, s.str, <<"n", "a", "n">>)
                 THEN [matched(<<"n", "a", "n">>) EXCEPT
                          !.str = @ + 3, !.at = "return_special"]
                 ELSE [matched(<<"n", "a", "n">>) EXCEPT !.at = "digits"]
            [] s.at = "return_special" ->
                 [s EXCEPT !.ret = (s.str = e), !.at = "done"]
            [] s.at = "digits" ->
                 IF is_valid_digit(c)
                 THEN [seen EXCEPT !.str = @ + 1, !.ndigits = @ + 1,
                                   !.valid = TRUE]
                 ELSE [seen EXCEPT !.at = "decimal"]
            [] s.at = "decimal" ->
                 IF long_literal THEN [s EXCEPT !.at = "return"]
                 ELSE IF is_decimal(c)
                 THEN [seen EXCEPT !.str = @ + 1, !.at = "fraction"]
                 ELSE [seen EXCEPT !.at = "exponent"]
            [] s.at = "fraction" ->
                 IF is_valid_digit(c)
                 THEN [seen EXCEPT !.str = @ + 1, !.ndigits = @ + 1,
                                   !.valid = TRUE]
                 ELSE [seen EXCEPT !.at = "exponent"]
            [] s.at = "exponent" ->
                 IF is_e_or_E(c) /\ s.valid
                 THEN [seen EXCEPT !.valid = FALSE, !.str = @ + 1,
                                   !.at = "exponent_sign"]
                 ELSE [seen EXCEPT !.at = "return"]
            [] s.at = "exponent_sign" ->
                 [seen EXCEPT !.str = consume_sign(b, s.str),
                              !.at = "exponent_digits"]
            [] s.at = "exponent_digits" ->
                 IF is_valid_digit(c)
                 THEN [seen EXCEPT !.str = @ + 1, !.ndigits = @ + 1,
                                   !.valid = TRUE]
                 ELSE [seen EXCEPT !.at = "return"]
            [] s.at = "return" ->
                 [s EXCEPT !.ret = (s.valid /\ s.ndigits < DBL_DIG /\ s.str = e),
                           !.at = "done"]
    IN  [fr EXCEPT !.scan = next]

(* One statement of string_contains_non_overflowing_float:                  *)
(* implementation.cpp 573-620.  "sign" is line 578, "special" 582, "inf"    *)
(* 584-585, "inity" 586-587, "nan" 591-592, "return_special" 588 and 593,   *)
(* "digits" 600, "decimal" 602-606, "fraction" 607, "exponent" 610-612,     *)
(* "exponent_sign" 613, "exponent_digits" 614, "return" 619.                *)
scan_step(fr, b, e) ==
    LET s == fr.scan
        c == At(b, s.str)
        seen == [s EXCEPT !.hi = Max(s.hi, s.str)]
        matched(t) == [s EXCEPT !.hi = Max(s.hi, last_compared(b, s.str, t, 1))]
        long_literal == consume_python2_long_literal_lL
        next ==
          CASE s.at = "sign" ->
                 [seen EXCEPT !.str = consume_sign(b, s.str), !.at = "special"]
            [] s.at = "special" ->
                 [seen EXCEPT !.at = IF is_n_or_N(c) \/ is_i_or_I(c)
                                     THEN "inf" ELSE "digits"]
            [] s.at = "inf" ->
                 IF case_insensitive_match(b, s.str, <<"i", "n", "f">>)
                 THEN [matched(<<"i", "n", "f">>) EXCEPT
                          !.str = @ + 3, !.at = "inity"]
                 ELSE [matched(<<"i", "n", "f">>) EXCEPT !.at = "nan"]
            [] s.at = "inity" ->
                 IF case_insensitive_match(b, s.str, <<"i", "n", "i", "t", "y">>)
                 THEN [matched(<<"i", "n", "i", "t", "y">>) EXCEPT
                          !.str = @ + 5, !.at = "return_special"]
                 ELSE [matched(<<"i", "n", "i", "t", "y">>) EXCEPT
                          !.at = "return_special"]
            [] s.at = "nan" ->
                 IF case_insensitive_match(b, s.str, <<"n", "a", "n">>)
                 THEN [matched(<<"n", "a", "n">>) EXCEPT
                          !.str = @ + 3, !.at = "return_special"]
                 ELSE [matched(<<"n", "a", "n">>) EXCEPT !.at = "digits"]
            [] s.at = "return_special" ->
                 [s EXCEPT !.ret = (s.str = e), !.at = "done"]
            [] s.at = "digits" ->
                 IF is_valid_digit(c)
                 THEN [seen EXCEPT !.str = @ + 1, !.ndigits = @ + 1,
                                   !.valid = TRUE]
                 ELSE [seen EXCEPT !.at = "decimal"]
            [] s.at = "decimal" ->
                 IF long_literal THEN [s EXCEPT !.at = "return"]
                 ELSE IF is_decimal(c)
                 THEN [seen EXCEPT !.str = @ + 1, !.at = "fraction"]
                 ELSE [seen EXCEPT !.at = "exponent"]
            [] s.at = "fraction" ->
                 IF is_valid_digit(c)
                 THEN [seen EXCEPT !.str = @ + 1, !.ndigits = @ + 1,
                                   !.valid = TRUE]
                 ELSE [seen EXCEPT !.at = "exponent"]
            [] s.at = "exponent" ->
                 IF is_e_or_E(c) /\ s.valid
                 THEN [seen EXCEPT !.valid = FALSE, !.str = @ + 1,
                                   !.at = "exponent_sign"]
                 ELSE [seen EXCEPT !.at = "return"]
            [] s.at = "exponent_sign" ->
                 [seen EXCEPT !.str = consume_sign(b, s.str),
                              !.at = "exponent_digits"]
            [] s.at = "exponent_digits" ->
                 IF is_valid_digit(c)
                 THEN [seen EXCEPT !.str = @ + 1, !.valid = TRUE]
                 ELSE [seen EXCEPT !.at = "return"]
            [] s.at = "return" ->
                 [s EXCEPT !.ret = (s.valid /\ s.ndigits < DBL_DIG /\ s.str = e),
                           !.at = "done"]
    IN  [fr EXCEPT !.scan = next]

\* descriptor bit tests of resolve_types
Has(f, bit) == bit \in f

\* a variant of resolve_step that keeps from_str in the flag the scan
\* calls valid, as if both were one file-level static
resolve_step_static_flag(fr, f, o) ==
    LET r == fr.res
        from_str == fr.scan.valid
    IN  CASE r.at = "from_str" ->
               [fr EXCEPT !.scan.valid = Has(f, "FromStr") \/ Has(f, "FromUni"),
                          !.res.at = "from_num"]
          [] r.at = "from_num" ->
               [fr EXCEPT !.res.from_num = Has(f, "FromNum"), !.res.at = "no_inf"]
          [] r.at = "no_inf" ->
               [fr EXCEPT !.res.no_inf = (from_str /\ ~o.allow_inf_str)
                                           \/ (r.from_num /\ ~o.allow_inf_num),
                          !.res.no_nan = (from_str /\ ~o.allow_nan_str)
                                           \/ (r.from_num /\ ~o.allow_nan_num),
                          !.res.from_str = from_str,
                          !.res.at = "bad_inf"]
          [] r.at = "bad_inf" ->
               [fr EXCEPT !.res.bad_inf = r.no_inf /\ Has(f, "Infinity"),
                          !.res.bad_nan = r.no_nan /\ Has(f, "NaN"),
                          !.res.at = "ok_float"]
          [] r.at = "ok_float" ->
               [fr EXCEPT !.res.ok_float = Has(f, "Float")
                                             /\ ~(r.bad_inf \/ r.bad_nan),
                          !.res.at = "ok_int"]
          [] r.at = "ok_int" ->
               [fr EXCEPT !.res.ok_int = Has(f, "Integer"),
                          !.res.at = "ok_intlike"]
          [] r.at = "ok_intlike" ->
               [fr EXCEPT !.res.ok_intlike = o.coerce /\ Has(f, "IntLike"),
                          !.res.at = "done"]

(* One statement of resolve_types: implementation.cpp 290-315.  "from_str"  *)
(* is line 300, "from_num" 301, "no_inf" 302-307, "bad_inf" 308-309,        *)
(* "ok_float" 312, "ok_int" 313, "ok_intlike" 314.                          *)
resolve_step(fr, f, o) ==
    LET r == fr.res
    IN  CASE r.at = "from_str" ->
               [fr EXCEPT !.res.from_str = Has(f, "FromStr") \/ Has(f, "FromUni"),
                          !.res.at = "from_num"]
          [] r.at = "from_num" ->
               [fr EXCEPT !.res.from_num = Has(f, "FromNum"), !.res.at = "no_inf"]
          [] r.at = "no_inf" ->
               [fr EXCEPT !.res.no_inf = (r.from_str /\ ~o.allow_inf_str)
                                           \/ (r.from_num /\ ~o.allow_inf_num),
                          !.res.no_nan = (r.from_str /\ ~o.allow_nan_str)
                                           \/ (r.from_num /\ ~o.allow_nan_num),
                          !.res.at = "bad_inf"]
          [] r.at = "bad_inf" ->
               [fr EXCEPT !.res.bad_inf = r.no_inf /\ Has(f, "Infinity"),
                          !.res.bad_nan = r.no_nan /\ Has(f, "NaN"),
                          !.res.at = "ok_float"]
          [] r.at = "ok_float" ->
               [fr EXCEPT !.res.ok_float = Has(f, "Float")
                                             /\ ~(r.bad_inf \/ r.bad_nan),
                          !.res.at = "ok_int"]
          [] r.at = "ok_int" ->
               [fr EXCEPT !.res.ok_int = Has(f, "Integer"),
                          !.res.at = "ok_intlike"]
          [] r.at = "ok_intlike" ->
               [fr EXCEPT !.res.ok_intlike = o.coerce /\ Has(f, "IntLike"),
                          !.res.at = "done"]

(* The next statement of the scan of [start, end) in buf.                   *)
ScanStep ==
    /\ frames.scan.at \notin {"idle", "done"}
    /\ frames' = scan_step(frames, buf, end)
    /\ UNCHANGED <<rvars, svars, ivars>>

(* The next statement of resolve_types(flags, options, ...).                *)
ResolveStep ==
    /\ frames.res.at \notin {"idle", "done"}
    /\ frames' = resolve_step(frames, flags, options)
    /\ UNCHANGED <<rvars, svars, ivars>>

(* The strings scanned statement by statement: every string of up to        *)
(* StepLen of the characters a literal is made of, the special tokens with  *)
(* a sign before and text after them, and mantissas around DBL_DIG digits.  *)
StepLen == 4
StepChars == {<<"1">>, <<".">>, <<"e">>, <<"+">>}
ShortStrings == Strings(StepChars, StepLen)

TokenStrings ==
    {sg \o tok \o tail :
        sg \in {<<>>, <<"-">>},
        tok \in {<<"i", "n", "f">>, <<"n", "a", "n">>, <<"I", "n", "F">>,
                 <<"i", "n", "f", "i", "n", "i", "t", "y">>,
                 <<"i", "n", "f", "i", "n", "i", "t">>, <<"n", "a">>},
        tail \in {<<>>, <<"1">>, <<"i", "n", "f">>}}

Run(c, n) == [i \in 1..n |-> c]

LongStrings ==
    {Run(c, a) \o dot \o Run(c, b) \o ex :
        c \in {"0", "1"}, a \in {0, 1, 7, DBL_DIG - 1, DBL_DIG},
        b \in {0, 1, 7, 8}, dot \in {<<>>, <<".">>},
        ex \in {<<>>, <<"e">>, <<"e", "9", "9", "9">>}}

\* the frame of a call that has not run its first statement
ScanFrame(str) == [NoScanFrame EXCEPT !.at = "sign", !.str = str, !.hi = str - 1]
ResolveFrame == [NoResolveFrame EXCEPT !.at = "from_str"]

\* strings with whitespace around them, for strip_whitespace to cut
PaddedStrings ==
    {l \o w \o r :
        w \in {<<>>, <<"1">>, <<"1", ".", "1">>, <<"i", "n", "f">>},
        l \in {<<>>, <<" ">>, <<"\t", " ">>}, r \in {<<>>, <<" ">>, <<" ", "\r">>}}

(* A scan alone: the range is a short string or any prefix of it, or a      *)
(* whole long string, or what strip_whitespace makes of a padded string.    *)
InitStep ==
    /\ pc = "idle" /\ fn = "none"
    /\ input = [kind |-> "text", pytype |-> "str", bits |-> {}]
    /\ args = NoArgs /\ local = NoLocal /\ ret = NULLPTR
    /\ options = DefaultOptions /\ flags = INVALID
    /\ resolver = Resolver /\ payload = VALUE
    /\ spc = "idle" /\ allow_underscores = FALSE /\ sret = FALSE
    /\ \/ (buf \in ShortStrings /\ start = 1 /\ end \in 1..(Len(buf) + 1))
       \/ (buf \in TokenStrings /\ start = 1 /\ end \in 1..(Len(buf) + 1))
       \/ (buf \in LongStrings /\ start = 1 /\ end = Len(buf) + 1)
       \/ /\ buf \in PaddedStrings
          /\ \E pre \in PreMems :
                LET r == strip_whitespace(buf, 1, Len(buf), pre)
                IN  start = r.start /\ end = r.end
    /\ text = buf
    /\ frames = [scan |-> ScanFrame(start), res |-> NoResolveFrame]
    /\ IInitIdle

SpecStep == InitStep /\ [][ScanStep]_vars

(* A scan and a resolve_types call in flight together, each on its own      *)
(* arguments.                                                               *)
InterleavedFlags ==
    {{"Float", "Infinity", "FromStr"}, {"Float", "NaN", "FromNum"},
     {"Float", "IntLike", "FromUni"}, {"Integer", "FromNum"},
     {"Float", "Infinity", "NaN", "FromStr", "FromNum"}, INVALID}

InterleavedOptions ==
    {set_coerce(set_nan_allowed(set_inf_allowed(DefaultOptions, inf), nan), co) :
        inf \in {ALLOWED, STRING_ONLY, DISALLOWED},
        nan \in {NUMBER_ONLY, DISALLOWED}, co \in BOOLEAN}

InitInterleaved ==
    /\ pc = "idle" /\ fn = "none"
    /\ input = [kind |-> "text", pytype |-> "str", bits |-> {}]
    /\ args = NoArgs /\ local = NoLocal /\ ret = NULLPTR
    /\ resolver = Resolver /\ payload = VALUE
    /\ options \in InterleavedOptions
    /\ flags \in InterleavedFlags
    /\ spc = "idle" /\ allow_underscores = FALSE /\ sret = FALSE
    /\ buf \in {<<"1">>, <<"1", ".", "1">>, <<"1", "e", "1">>, <<".", "e">>,
                <<"i", "n", "f">>, <<"n", "a">>, <<"1", "e">>, <<>>}
    /\ text = buf
    /\ start = 1
    /\ end = Len(buf) + 1
    /\ frames = [scan |-> ScanFrame(start), res |-> ResolveFrame]
    /\ IInitIdle

NextInterleaved == ScanStep \/ ResolveStep

SpecInterleaved == InitInterleaved /\ [][NextInterleaved]_vars

-----------------------------------------------------------------------------
(* Iteration: ListBuilder and IterableManager of iteration.hpp, and the two *)
(* entry points that use them, iteration_impl and array_impl.               *)
(*                                                                          *)
(* An item of the iterable is written as what converting it gives: a        *)
(* negative number when convert throws, 0 when the converted value is the   *)
(* default payload (0, or a null pointer), and the value otherwise.  A      *)
(* list is the sequence of its slots, 0 being a slot that holds NULL.       *)

MaxItems == 3
MaxHint == 4
MaxExtra == 1

Outcomes == {1 - 2, 0, 1, 2}
Throws(item) == item < 0

ItemSeqs == UNION {[1..n -> Outcomes] : n \in 0..MaxItems}

(* The iterables: a list or tuple, another sequence, or a one-shot          *)
(* iterator.  PyObject_LengthHint is the length of a sequence, and any      *)
(* number for an iterator, whose hint need not be exact.                    *)
PySequence_Check(o) == o.kind \in {"list", "tuple", "sequence"}

Objects ==
    {o \in [kind : {"list", "tuple", "sequence", "iterator"}, items : ItemSeqs,
            hint : 0..MaxHint, pos : {0}] :
        PySequence_Check(o) => o.hint = Len(o.items)}

(* ListBuilder(length): iteration.hpp 22-39.                                *)
ListBuilder(length) == [m_list |-> [i \in 1..length |-> 0], m_index |-> 0]

(* ListBuilder::append: iteration.hpp 52-74.                                *)
append(l, item) ==
    IF item = 0 THEN [lb |-> l, threw |-> TRUE]
    ELSE IF Len(l.m_list) = l.m_index
    THEN [lb |-> [m_list |-> Append(l.m_list, item), m_index |-> l.m_index + 1],
          threw |-> FALSE]
    ELSE [lb |-> [m_list |-> [l.m_list EXCEPT ![l.m_index + 1] = item],
                  m_index |-> l.m_index + 1],
          threw |-> FALSE]

(* IterableManager(potential_iterable, convert): iteration.hpp 113-131.     *)
IterableManager(o) ==
    IF o.kind \in {"list", "tuple"}
    THEN [NoManager EXCEPT !.m_fast_sequence = "object",
                           !.m_seq_size = Len(o.items), !.fast_items = o.items]
    ELSE [NoManager EXCEPT !.m_iterator = "iterator"]

\* a variant of require_fast_sequence that keeps the iterator it has drained
require_fast_sequence_keeps_iterator(m, o, fail) ==
    IF PySequence_Check(o) THEN [man |-> m, obj |-> o, threw |-> FALSE]
    ELSE IF fail
    THEN [man |-> [m EXCEPT !.m_fast_sequence = NULLPTR], obj |-> o,
          threw |-> TRUE]
    ELSE LET rest == SubSeq(o.items, o.pos + 1, Len(o.items))
         IN  [man |-> [m EXCEPT !.m_fast_sequence = "list",
                                !.fast_items = rest,
                                !.m_seq_size = Len(rest)],
              obj |-> [o EXCEPT !.pos = Len(o.items)],
              threw |-> FALSE]

(* IterableManager::require_fast_sequence: iteration.hpp 312-340.  fail is  *)
(* PySequence_InPlaceConcat returning NULL.                                 *)
require_fast_sequence(m, o, fail) ==
    IF PySequence_Check(o) THEN [man |-> m, obj |-> o, threw |-> FALSE]
    ELSE IF fail
    THEN [man |-> [m EXCEPT !.m_fast_sequence = NULLPTR], obj |-> o,
          threw |-> TRUE]
    ELSE LET rest == SubSeq(o.items, o.pos + 1, Len(o.items))
         IN  [man |-> [m EXCEPT !.m_fast_sequence = "list",
                                !.fast_items = rest,
                                !.m_iterator = NULLPTR,
                                !.m_seq_size = Len(rest)],
              obj |-> [o EXCEPT !.pos = Len(o.items)],
              threw |-> FALSE]

(* IterableManager::get_size: iteration.hpp 152-162.                        *)
get_size(m, o, fail) ==
    IF m.m_fast_sequence # NULLPTR
    THEN [man |-> m, obj |-> o, size |-> m.m_seq_size, threw |-> FALSE]
    ELSE IF PySequence_Check(o)
    THEN [man |-> m, obj |-> o, size |-> Len(o.items), threw |-> FALSE]
    ELSE LET r == require_fast_sequence(m, o, fail)
         IN  [man |-> r.man, obj |-> r.obj, size |-> r.man.m_seq_size,
              threw |-> r.threw]

(* IterableManager::next: iteration.hpp 267-309.  refs is the number of     *)
(* new references to an item the call took and did not give back.           *)
next(m, o) ==
    IF m.m_iterator = NULLPTR
    THEN IF m.m_index = m.m_seq_size
         THEN [payload |-> 0, state |-> STOP, man |-> m, obj |-> o,
               converted |-> <<>>, refs |-> 0, threw |-> FALSE]
         ELSE LET item == m.fast_items[m.m_index + 1]
              IN  [payload |-> IF Throws(item) THEN 0 ELSE item,
                   state |-> CONTINUE,
                   man |-> [m EXCEPT !.m_index = @ + 1], obj |-> o,
                   converted |-> <<item>>, refs |-> 0, threw |-> Throws(item)]
    ELSE IF o.pos = Len(o.items)
         THEN [payload |-> 0, state |-> STOP, man |-> m, obj |-> o,
               converted |-> <<>>, refs |-> 0, threw |-> FALSE]
         ELSE LET item == o.items[o.pos + 1]
              IN  [payload |-> IF Throws(item) THEN 0 ELSE item,
                   state |-> CONTINUE,
                   man |-> m, obj |-> [o EXCEPT !.pos = @ + 1],
                   converted |-> <<item>>,
                   refs |-> IF Throws(item) THEN 0 ELSE 1,
                   threw |-> Throws(item)]

\* a variant of operator== that compares the payloads only
iter_equal_payload_only(a, b) == a.m_payload = b.m_payload

(* ItemIterator::operator==: iteration.hpp 219-222.                         *)
iter_equal(a, b) == a.m_payload = b.m_payload /\ a.m_state = b.m_state

(* ItemIterator::operator++: iteration.hpp 210-216.                         *)
increment(i, m, o, l) ==
    LET r == next(m, o)
    IN  [it |-> IF r.threw THEN i
                ELSE [m_payload |-> r.payload, m_state |-> r.state],
         man |-> r.man, obj |-> r.obj,
         log |-> [l EXCEPT !.converted = @ \o r.converted,
                           !.held = @ + r.refs],
         threw |-> r.threw]

(* ~ArrayImpl: implementation.cpp 462.                                      *)
ArrayImpl_destructor(a) == [a EXCEPT !.released = @ + 1]

\* the stack unwinding when an exception leaves the entry point
unwind(a) == IF prog = "array_impl" THEN ArrayImpl_destructor(a) ELSE a

Formats == {NULLPTR, "d", "i", "?"}
KnownFormats == {"b", "B", "h", "H", "i", "I", "l", "L", "q", "Q", "f", "d"}

\* a variant of array_impl that tests the format before impl is built
array_impl_checks_format_first(ok, format) ==
    IF ~ok THEN [arr |-> NoArray, pc |-> "thrown"]
    ELSE LET a == [NoArray EXCEPT !.got = 1, !.format = format]
         IN  IF format = NULLPTR THEN [arr |-> a, pc |-> "thrown"]
             ELSE IF format \in KnownFormats THEN [arr |-> a, pc |-> "execute"]
             ELSE [arr |-> ArrayImpl_destructor(a), pc |-> "thrown"]

(* array_impl up to the call of execute: implementation.cpp 496-566.  ok    *)
(* is PyObject_GetBuffer returning 0.                                       *)
array_impl_checks(ok, format) ==
    IF ~ok THEN [arr |-> NoArray, pc |-> "thrown"]
    ELSE LET a == [NoArray EXCEPT !.got = 1, !.format = format]
         IN  IF format = NULLPTR
             THEN [arr |-> ArrayImpl_destructor(a), pc |-> "thrown"]
             ELSE IF format \in KnownFormats THEN [arr |-> a, pc |-> "execute"]
             ELSE [arr |-> ArrayImpl_destructor(a), pc |-> "thrown"]

(* iteration_impl, up to the loop: implementation.cpp 412-419.              *)
iteration_impl_enter ==
    /\ ipc = "start"
    /\ prog' = "iteration_impl"
    /\ lb' = ListBuilder(iterable.hint)
    /\ man' = IterableManager(iterable)
    /\ ipc' = "begin"
    /\ UNCHANGED <<iterable, it, arr, log, rvars, svars, frames>>

(* array_impl, up to the call of execute.                                   *)
array_impl_enter ==
    /\ ipc = "start"
    /\ prog' = "array_impl"
    /\ \E ok \in BOOLEAN, format \in Formats :
          LET r == array_impl_checks(ok, format)
          IN  arr' = r.arr /\ ipc' = r.pc
    /\ UNCHANGED <<iterable, man, it, lb, log, rvars, svars, frames>>

(* ArrayImpl::execute, up to the loop: implementation.cpp 466-486.          *)
execute_enter ==
    /\ ipc = "execute"
    /\ \E fail \in BOOLEAN :
          LET r == get_size(IterableManager(iterable), iterable, fail)
          IN  /\ man' = r.man
              /\ iterable' = r.obj
              /\ arr' = IF r.threw THEN unwind(arr)
                        ELSE [arr EXCEPT !.size = r.size]
              /\ ipc' = IF r.threw THEN "thrown" ELSE "begin"
    /\ UNCHANGED <<prog, it, lb, log, rvars, svars, frames>>

(* begin(): iteration.hpp 242 and 181-190, the iterator primed.             *)
range_for_begin ==
    /\ ipc = "begin"
    /\ LET r == increment(EndIterator, man, iterable, log)
       IN  /\ it' = r.it /\ man' = r.man /\ iterable' = r.obj /\ log' = r.log
           /\ arr' = IF r.threw THEN unwind(arr) ELSE arr
           /\ ipc' = IF r.threw THEN "thrown" ELSE "loop"
    /\ UNCHANGED <<prog, lb, rvars, svars, frames>>

(* One turn of the loop: the body, then ++it.  implementation.cpp 422-424   *)
(* and 489-491.                                                             *)
range_for_body ==
    /\ ipc = "loop"
    /\ ~iter_equal(it, EndIterator)
    /\ LET a == IF prog = "iteration_impl" THEN append(lb, it.m_payload)
                ELSE [lb |-> lb, threw |-> FALSE]
           placed == IF prog = "array_impl"
                     THEN [arr EXCEPT !.placed = Append(@, it.m_payload)]
                     ELSE arr
           r == increment(it, man, iterable, log)
       IN  IF a.threw
           THEN /\ ipc' = "thrown"
                /\ UNCHANGED <<it, man, iterable, log, lb, arr>>
           ELSE /\ lb' = a.lb
                /\ it' = r.it /\ man' = r.man /\ iterable' = r.obj /\ log' = r.log
                /\ arr' = IF r.threw THEN unwind(placed) ELSE placed
                /\ ipc' = IF r.threw THEN "thrown" ELSE "loop"
    /\ UNCHANGED <<prog, rvars, svars, frames>>

(* The loop ends and the entry point returns: implementation.cpp 427, 492.  *)
range_for_exit ==
    /\ ipc = "loop"
    /\ iter_equal(it, EndIterator)
    /\ arr' = unwind(arr)
    /\ ipc' = "returned"
    /\ UNCHANGED <<prog, iterable, man, it, lb, log, rvars, svars, frames>>

(* A further ++it on an iterator that has reported STOP.                    *)
increment_past_end ==
    /\ ipc = "loop"
    /\ it.m_state = STOP
    /\ log.extra < MaxExtra
    /\ LET r == increment(it, man, iterable, log)
       IN  /\ it' = r.it /\ man' = r.man /\ iterable' = r.obj
           /\ log' = [r.log EXCEPT !.extra = @ + 1]
    /\ UNCHANGED <<ipc, prog, lb, arr, rvars, svars, frames>>

InitIter ==
    /\ RInitIdle
    /\ SInitIdle
    /\ frames = [scan |-> NoScanFrame, res |-> NoResolveFrame]
    /\ ipc = "start" /\ prog = "none"
    /\ iterable \in Objects
    /\ man = NoManager
    /\ it = EndIterator
    /\ lb = [m_list |-> <<>>, m_index |-> 0]
    /\ arr = NoArray
    /\ log = NoLog

NextIter ==
    \/ iteration_impl_enter
    \/ array_impl_enter
    \/ execute_enter
    \/ range_for_begin
    \/ range_for_body
    \/ range_for_exit
    \/ increment_past_end

SpecIter == InitIter /\ [][NextIter]_vars

-----------------------------------------------------------------------------
(* Properties of the verdict functions (SpecResolve).                       *)

\* the descriptor in flags comes from text (a string or a unicode character)
FromText == ("FromStr" \in flags) \/ ("FromUni" \in flags)

\* infinity, resp. NaN, is allowed for the origin of the descriptor in flags
InfAllowedForOrigin ==
    IF FromText THEN options.allow_inf_str ELSE options.allow_inf_num
NanAllowedForOrigin ==
    IF FromText THEN options.allow_nan_str ELSE options.allow_nan_num

\* the descriptor is an infinity or a NaN that its origin disallows
SpecialDisallowed ==
    \/ ("Infinity" \in flags /\ ~InfAllowedForOrigin)
    \/ ("NaN" \in flags /\ ~NanAllowedForOrigin)

\* C1: for a descriptor with Float set, ok_float is false exactly when
\* Infinity is set and infinity is disallowed for the descriptor's own
\* origin, or NaN is set and NaN is disallowed for its own origin; the
\* allowance of the other origin is never consulted.
C1_FloatVerdictByOrigin ==
    (pc = "done" /\ "Float" \in flags) =>
        ((local.ok_float = FALSE) <=> SpecialDisallowed)

\* C1 witness: text "Infinity", infinity disallowed for text and allowed for
\* numbers, is rejected.
C1_Witness ==
    /\ pc = "done"
    /\ flags = {"Float", "Infinity", "FromStr"}
    /\ ~options.allow_inf_str
    /\ options.allow_inf_num
    /\ local.ok_float = FALSE

\* C2: float_check_impl returns True iff the float verdict holds or the
\* integer verdict is admitted: for REAL an Integer descriptor of any origin,
\* for FLOAT an Integer descriptor only from text and only when not strict.
C2_FloatCheckVerdict ==
    (fn = "float_check_impl") =>
        LET float_verdict == "Float" \in flags /\ ~SpecialDisallowed
            int_admitted ==
                /\ "Integer" \in flags
                /\ \/ args.ntype = REAL
                   \/ (args.ntype = FLOAT /\ FromText /\ ~args.strict)
        IN  /\ ret \in {Py_True, Py_False}
            /\ (ret = Py_True) <=> (float_verdict \/ int_admitted)

\* C2 witness: a native integer is not accepted by the FLOAT check, not even
\* when strict is off.
C2_Witness ==
    /\ fn = "float_check_impl"
    /\ args.ntype = FLOAT
    /\ ~args.strict
    /\ flags = {"Integer", "FromNum"}
    /\ ret = Py_False

\* C3: int_check_impl returns True iff the descriptor has Integer set, or has
\* IntLike set and the requested type is INTLIKE; and in every call the
\* integer verdicts of resolve_types are functions of the descriptor and of
\* coercion alone, whatever the inf/NaN allowances are.
C3_IntCheckVerdict ==
    /\ (fn = "int_check_impl") =>
          /\ ret \in {Py_True, Py_False}
          /\ (ret = Py_True) <=>
                \/ "Integer" \in flags
                \/ ("IntLike" \in flags /\ args.ntype = INTLIKE)
    /\ (pc = "done") =>
          /\ local.ok_int = ("Integer" \in flags)
          /\ local.ok_intlike = (options.coerce /\ "IntLike" \in flags)

\* C3 witness: a float with zero fractional part is rejected for plain INT.
C3_Witness ==
    /\ fn = "int_check_impl"
    /\ args.ntype = INT
    /\ flags = {"Float", "IntLike", "FromStr"}
    /\ ret = Py_False

\* the type the query is to find for the descriptor in flags
ExpectedType ==
    IF "Integer" \in flags \/ ("IntLike" \in flags /\ options.coerce)
    THEN PyLong_Type
    ELSE IF "Float" \in flags /\ ~SpecialDisallowed
    THEN PyFloat_Type
    ELSE input.pytype

\* C4: the type query finds exactly one type: int when the descriptor is
\* Integer or is IntLike with coercion on; otherwise float when it is Float
\* and not a disallowed infinity or NaN; otherwise the input's own type.  It
\* returns that type (None when allowed_types is given and lacks it).
C4_TypeQueryKind ==
    (fn = "type_query_impl") =>
        /\ local.found_type = ExpectedType
        /\ ret = IF args.allowed_types.null
                    \/ ExpectedType \in args.allowed_types.types
                 THEN ExpectedType
                 ELSE Py_None

\* C4 witness: an IntLike float is float kind with coercion off, though both
\* the IntLike bit and the float verdict hold.
C4_Witness ==
    /\ fn = "type_query_impl"
    /\ flags = {"Float", "IntLike", "FromStr"}
    /\ ~options.coerce
    /\ args.allowed_types.null
    /\ ret = PyFloat_Type

\* C4 second case, as a state to reach: with coercion on the same descriptor
\* is int kind (the integer verdict has priority over the float verdict).
C4_WitnessPriority ==
    /\ fn = "type_query_impl"
    /\ flags = {"Float", "IntLike", "FromStr"}
    /\ options.coerce
    /\ local.ok_float
    /\ ret = PyLong_Type

-----------------------------------------------------------------------------
(* Properties of the scanner (SpecScan).  The grammar is stated here on     *)
(* whole strings, independently of the scanner's cursor walk.               *)

Spaces == {" ", "\t", "\n", "\r"}
Digits == {"0", "1", "5", "9"}
SignChars == {"+", "-"}
ExpChars == {"e", "E"}

Lower(c) ==
    CASE c = "A" -> "a" [] c = "E" -> "e" [] c = "F" -> "f" [] c = "I" -> "i"
      [] c = "N" -> "n" [] c = "T" -> "t" [] c = "Y" -> "y" [] OTHER -> c

LowerSeq(w) == [k \in 1..Len(w) |-> Lower(w[k])]

AllDigits(w) == \A k \in 1..Len(w) : w[k] \in Digits

\* w without its leading and trailing whitespace
Trim(w) ==
    LET idx == {k \in 1..Len(w) : w[k] \notin Spaces}
    IN  IF idx = {} THEN <<>>
        ELSE SubSeq(w, CHOOSE k \in idx : \A j \in idx : k <= j,
                       CHOOSE k \in idx : \A j \in idx : k >= j)

\* w without one optional leading sign
Unsigned(w) == IF w # <<>> /\ w[1] \in SignChars THEN Tail(w) ELSE w

IsSpecialToken(w) ==
    LowerSeq(w) \in {<<"i", "n", "f">>, <<"n", "a", "n">>,
                     <<"i", "n", "f", "i", "n", "i", "t", "y">>}

\* digits, optionally a decimal point and digits, at least one digit in all
IsMantissa(w) ==
    \E k \in 0..Len(w) :
        /\ AllDigits(SubSeq(w, 1, k))
        /\ \/ (k = Len(w) /\ k >= 1)
           \/ /\ k < Len(w)
              /\ w[k + 1] = "."
              /\ AllDigits(SubSeq(w, k + 2, Len(w)))
              /\ Len(w) >= 2

\* an exponent marker, an optional sign, one or more digits
IsExponent(w) ==
    /\ Len(w) >= 2
    /\ w[1] \in ExpChars
    /\ LET d == Unsigned(Tail(w)) IN d # <<>> /\ AllDigits(d)

IsDecimalLiteral(w) ==
    \E k \in 1..Len(w) :
        /\ IsMantissa(SubSeq(w, 1, k))
        /\ (k = Len(w) \/ IsExponent(SubSeq(w, k + 1, Len(w))))

FullMatch(w) == IsSpecialToken(Unsigned(w)) \/ IsDecimalLiteral(Unsigned(w))

\* the range handed to the scanner
Range == SubSeq(buf, start, end - 1)

\* the verdict on w taken as a string of its own, with no whitespace to strip
Verdict(w, au) ==
    LET r == IF au THEN remove_valid_underscores(w, 1, Len(w) + 1)
             ELSE [buf |-> w, end |-> Len(w) + 1]
    IN  string_contains_non_overflowing_float(r.buf, 1, r.end)

HasEmbeddedSpace(w) ==
    \E i, j, k \in 1..Len(w) :
        i < j /\ j < k /\ w[i] \notin Spaces /\ w[j] \in Spaces /\ w[k] \notin Spaces

\* C5: leading and trailing whitespace never affects classification: the
\* verdict on the padded string, stripped in place and scanned, is the verdict
\* on the string without its padding; and a string with whitespace between two
\* non-whitespace characters is rejected.
C5_WhitespaceIgnored ==
    (spc = "done") =>
        /\ sret = Verdict(Trim(text), allow_underscores)
        /\ HasEmbeddedSpace(text) => (sret = FALSE)

\* C5 witness: a string padded on both sides is accepted.
C5_Witness ==
    /\ spc = "done"
    /\ Len(text) >= 3
    /\ text[1] \in Spaces
    /\ text[Len(text)] \in Spaces
    /\ sret = TRUE

\* C5 second case, as a state to reach: embedded whitespace is rejected.
C5_WitnessEmbedded ==
    /\ spc = "done"
    /\ text = <<"1", " ", "1">>
    /\ sret = FALSE

\* C6: no partial match is accepted: whenever the scanner accepts a range,
\* the whole range is one literal of the grammar, so a valid numeric prefix
\* followed by a character the grammar cannot absorb is rejected.
C6_NoPartialMatch ==
    (spc = "done" /\ sret = TRUE) => FullMatch(Range)

\* C6 witness: a range with an accepted proper prefix is rejected as a whole.
C6_Witness ==
    /\ spc = "done"
    /\ sret = FALSE
    /\ \E k \in 1..(Len(Range) - 1) :
          string_contains_non_overflowing_float(SubSeq(Range, 1, k), 1, k + 1)

\* the part of w before its first exponent marker
BeforeExponent(w) ==
    LET idx == {k \in 1..Len(w) : w[k] \in ExpChars}
    IN  IF idx = {} THEN w
        ELSE SubSeq(w, 1, (CHOOSE k \in idx : \A j \in idx : k <= j) - 1)

DigitCount(w) == Cardinality({k \in 1..Len(w) : w[k] \in Digits})

C7_WitnessForms ==
    /\ spc = "done"
    /\ Range \in {<<"1", ".">>, <<".", "1">>}
    /\ sret = TRUE

C8_WitnessAccepted ==
    /\ spc = "done"
    /\ Range = <<"1", ".", "e", "-", "1">>
    /\ sret = TRUE

\* C9: after at most one leading sign, a remainder that equals "inf",
\* "infinity" or "nan" (letter case ignored) is accepted; any other range
\* whose remainder starts with i or n is rejected, and so is every range that
\* starts with two signs.
C9_SpecialTokens ==
    (spc = "done") =>
        LET w == Unsigned(Range)
        IN  /\ IsSpecialToken(w) => (sret = TRUE)
            /\ (w # <<>> /\ Lower(w[1]) \in {"i", "n"} /\ ~IsSpecialToken(w))
                  => (sret = FALSE)
            /\ (w # <<>> /\ w[1] \in SignChars) => (sret = FALSE)

\* C9 witness: a signed special token in mixed case is accepted.
C9_Witness ==
    /\ spc = "done"
    /\ Range = <<"-", "I", "n", "F", "i", "n", "i", "t", "y">>
    /\ sret = TRUE

\* C9 second case, as a state to reach: two signs before a token.
C9_WitnessTwoSigns ==
    /\ spc = "done"
    /\ Range = <<"+", "-", "i", "n", "f">>
    /\ sret = FALSE

\* the underscores of w, and those with a digit on each side
Underscores(w) == {k \in 1..Len(w) : w[k] = "_"}
BetweenDigits(w, k) ==
    k > 1 /\ k < Len(w) /\ w[k - 1] \in Digits /\ w[k + 1] \in Digits
WithoutUnderscores(w) == SelectSeq(w, LAMBDA c : c # "_")

\* C10: a literal with an underscore that is leading, trailing, doubled or
\* next to the decimal point or the exponent marker (any underscore without
\* a digit on each side) is rejected whatever allow_underscores is; a string
\* whose underscores all stand singly between digits is accepted iff
\* allow_underscores is true and the string without them is a literal the
\* scanner accepts.
C10_UnderscoreRule ==
    (spc = "done") =>
        LET w == Trim(text)
        IN  /\ (\E k \in Underscores(w) : ~BetweenDigits(w, k))
                  => (sret = FALSE)
            /\ (/\ Underscores(w) # {}
                /\ \A k \in Underscores(w) : BetweenDigits(w, k))
                  => (sret = (allow_underscores
                               /\ Verdict(WithoutUnderscores(w), FALSE)))

\* C10 witness: "1_111" is accepted with the option on.
C10_Witness ==
    /\ spc = "done"
    /\ text = <<"1", "_", "1", "1", "1">>
    /\ allow_underscores
    /\ sret = TRUE

\* C10 second case, as a state to reach: "1_111" is rejected with it off.
C10_WitnessOff ==
    /\ spc = "done"
    /\ text = <<"1", "_", "1", "1", "1">>
    /\ ~allow_underscores
    /\ sret = FALSE

\* C10 third case, as a state to reach: an underscore next to the decimal
\* point is rejected with the option on.
C10_WitnessAdjacent ==
    /\ spc = "done"
    /\ text = <<"1", "_", ".", "1">>
    /\ allow_underscores
    /\ sret = FALSE

-----------------------------------------------------------------------------
(* Conversion: the actions of the categories do_resolve leaves unset.       *)

\* the categories whose setter a do_resolve overload does not call
UnsetCategories(overload) ==
    CASE overload = "fail" -> {INF, NAN, TYPE_ERROR}
      [] overload = "fail_type_error" -> {INF, NAN}
      [] overload = "fail_inf_nan" -> {TYPE_ERROR}
      [] OTHER -> {}

ConvEntryPoints ==
    {"float_conv_impl_full", "float_conv_impl_fuller", "float_conv_impl_reduced",
     "int_conv_impl_full", "int_conv_impl_fuller", "int_conv_impl_reduced"}

C11_WitnessInfSet ==
    /\ pc = "done"
    /\ resolver.overload = "fail_inf_nan"
    /\ resolver.inf = ALLOWED
    /\ payload = INF
    /\ ret = "value"

-----------------------------------------------------------------------------
(* The single unicode numeral and the base.                                 *)

IntEntryPoints ==
    {"int_conv_impl_full", "int_conv_impl_fuller", "int_conv_impl_reduced",
     "int_check_impl"}

\* the entry point took the object for an integer
AcceptedAsInteger ==
    IF fn = "int_check_impl" THEN ret = Py_True ELSE payload = VALUE

\* C12: on an integer entry point a single unicode numeral is accepted as
\* an integer only when the base is the default one.
C12_UnicodeNumeralDefaultBaseOnly ==
    (pc = "done" /\ fn \in IntEntryPoints /\ input.kind = "unicode"
        /\ AcceptedAsInteger)
        => is_default_base(options)

\* C12, as a state to reach: int_conv_impl takes a unicode numeral with the
\* default base.
C12_ReachedDefaultBase ==
    /\ pc = "done"
    /\ fn = "int_conv_impl_full"
    /\ input.kind = "unicode"
    /\ is_default_base(options)
    /\ payload = VALUE

-----------------------------------------------------------------------------
(* Calls in flight together, and the bounds of one scan.                    *)

\* the four results resolve_types leaves in its caller's variables
ResolveResults(r) ==
    [from_str |-> r.from_str, ok_float |-> r.ok_float, ok_int |-> r.ok_int,
     ok_intlike |-> r.ok_intlike, found_type |-> NULLPTR]

\* C13: a scan and a resolve_types call interleaved statement by statement
\* each end with the result they give when run alone, a statement of one
\* leaves the frame of the other as it was, and neither changes the buffer,
\* the flags or the options the calls were given.
C13_CallsShareNoState ==
    /\ [](frames.scan.at = "done" =>
            frames.scan.ret = string_contains_non_overflowing_float(buf, start, end))
    /\ [](frames.res.at = "done" =>
            ResolveResults(frames.res) = resolve_types(flags, options))
    /\ [][/\ (frames'.scan # frames.scan => frames'.res = frames.res)
          /\ (frames'.res # frames.res => frames'.scan = frames.scan)
          /\ buf' = buf /\ start' = start /\ end' = end
          /\ flags' = flags /\ options' = options]_vars

\* C13 witness: both calls are in the middle of their work, the scan in the
\* exponent with its flag set, resolve_types with bad_inf just computed.
C13_Witness ==
    /\ frames.scan.at = "exponent_digits"
    /\ frames.scan.valid
    /\ frames.res.at = "ok_float"
    /\ frames.res.bad_inf

\* C14: a scan of the range [start, end) of n characters reads no character
\* after the one at end, so it reads at most n + 1 characters, and its cursor
\* does not pass end.
C14_ScanBoundedByRange ==
    (frames.scan.at # "idle") =>
        /\ frames.scan.hi <= end
        /\ (frames.scan.hi - start) + 1 <= (end - start) + 1
        /\ frames.scan.str <= end

\* C14, as a step property: the cursor only moves forward.
C14_CursorMovesForward == [][frames'.scan.str >= frames.scan.str]_vars

\* C14, the bound the scan does keep: it reads no character after the NUL
\* that ends the buffer, and nothing after end when the range is not empty
\* or reversed and the character at end is the NUL or whitespace.
C14_ScanBoundedByBuffer ==
    (frames.scan.at # "idle") =>
        /\ frames.scan.hi <= Len(buf) + 1
        /\ frames.scan.str <= Len(buf) + 1
        /\ (start <= end /\ (At(buf, end) = NUL \/ is_white_space(At(buf, end))))
              => (frames.scan.hi <= end /\ frames.scan.str <= end)

\* C14, as a state to reach: strip_whitespace has made of a string of one
\* space a range that ends before it starts, and the scan has read the NUL
\* after its end.
C14_ReachedReversedRange ==
    /\ frames.scan.at = "done"
    /\ buf = <<" ">>
    /\ end < start
    /\ frames.scan.hi = start

\* C14, as a state to reach: the range is the first character of "11", and
\* the scan has read the NUL two characters after the end of the range.
C14_ReachedPastEnd ==
    /\ frames.scan.at = "done"
    /\ buf = <<"1", "1">>
    /\ end = 2
    /\ frames.scan.hi = 3
    /\ frames.scan.ret = FALSE

\* C15: a whole string that is a decimal literal is accepted exactly when
\* the digits of its mantissa, before and after the decimal point, are fewer
\* than DBL_DIG; the digits of the exponent do not count; and a special
\* token is accepted whatever it is.
C15_PrecisionGuardCountsMantissa ==
    (frames.scan.at = "done" /\ end = Len(buf) + 1) =>
        LET u == Unsigned(buf)
        IN  /\ IsDecimalLiteral(u)
                => (frames.scan.ret = (DigitCount(BeforeExponent(u)) < DBL_DIG))
            /\ IsSpecialToken(u) => (frames.scan.ret = TRUE)

\* C15 witness: fourteen digits and a three-digit exponent are accepted.
C15_Witness ==
    /\ frames.scan.at = "done"
    /\ end = Len(buf) + 1
    /\ buf = Run("1", DBL_DIG - 1) \o <<"e", "9", "9", "9">>
    /\ frames.scan.ndigits = DBL_DIG - 1
    /\ frames.scan.ret = TRUE

\* C15 second case, as a state to reach: fifteen digits, eight of them after
\* the decimal point and all of them zeros, are rejected.
C15_WitnessFifteen ==
    /\ frames.scan.at = "done"
    /\ buf = Run("0", 7) \o <<".">> \o Run("0", 8)
    /\ frames.scan.ndigits = DBL_DIG
    /\ frames.scan.ret = FALSE

\* C15 third case, as a state to reach: "1e999" is accepted.
C15_WitnessLargeExponent ==
    /\ frames.scan.at = "done"
    /\ buf = <<"1", "e", "9", "9", "9">>
    /\ frames.scan.ret = TRUE

-----------------------------------------------------------------------------
(* Iteration.                                                               *)

\* the IterableManager has been constructed
Managed == ipc \in {"begin", "loop", "returned"} \/ man # NoManager

\* C16: after k appends the first k slots of the list hold the appended
\* items in order and m_index = k is at most the size of the list; the list
\* iteration_impl returns has exactly one element per item of the input and
\* no slot left unfilled, whatever the length hint was.
C16_AppendFillsList ==
    (prog = "iteration_impl" /\ ipc \in {"begin", "loop", "returned"}) =>
        /\ lb.m_index <= Len(lb.m_list)
        /\ SubSeq(lb.m_list, 1, lb.m_index) = SubSeq(iterable.items, 1, lb.m_index)
        /\ (ipc = "returned") =>
              /\ lb.m_index = Len(iterable.items)
              /\ Len(lb.m_list) = lb.m_index
              /\ \A i \in 1..Len(lb.m_list) : lb.m_list[i] # 0

\* C16, what does hold: the appended items are in order at the front, and
\* the returned list is as long as the larger of the hint and the number of
\* items, the slots after the items holding NULL.
C16_AppendKeepsOrder ==
    (prog = "iteration_impl" /\ ipc \in {"begin", "loop", "returned"}) =>
        /\ lb.m_index <= Len(lb.m_list)
        /\ SubSeq(lb.m_list, 1, lb.m_index) = SubSeq(iterable.items, 1, lb.m_index)
        /\ Len(lb.m_list) = Max(iterable.hint, lb.m_index)
        /\ \A i \in (lb.m_index + 1)..Len(lb.m_list) : lb.m_list[i] = 0
        /\ (ipc = "returned") => lb.m_index = Len(iterable.items)

\* C16, as a state to reach: an iterator that hints at two items and gives
\* one; the list returned has a second slot holding NULL.
C16_ReachedUnfilledSlot ==
    /\ prog = "iteration_impl"
    /\ ipc = "returned"
    /\ iterable.kind = "iterator"
    /\ iterable.hint = 2
    /\ iterable.items = <<1>>
    /\ lb.m_list = <<1, 0>>

\* C16, as a state to reach: a hint smaller than the number of items.
C16_ReachedSmallHint ==
    /\ prog = "iteration_impl"
    /\ ipc = "returned"
    /\ iterable.hint = 1
    /\ lb.m_list = <<2, 1, 2>>

\* C17: over a list or tuple of n items convert is called once per item in
\* index order; m_index never exceeds m_seq_size; the iterator equals end()
\* exactly when STOP was reported, which is when all n items were converted,
\* and not when a converted value is the default payload; a further ++ after
\* STOP reports STOP again; the loop that returns has handled all n items.
C17_FastSequenceIteration ==
    (iterable.kind \in {"list", "tuple"} /\ ipc \in {"loop", "returned", "thrown"}
        /\ Managed) =>
        /\ man.m_seq_size = Len(iterable.items)
        /\ man.m_index <= man.m_seq_size
        /\ log.converted = SubSeq(iterable.items, 1, man.m_index)
        /\ (ipc = "loop") =>
              /\ iter_equal(it, EndIterator) <=> (it.m_state = STOP)
              /\ (it.m_state = STOP) => (man.m_index = man.m_seq_size)
              /\ (it.m_state = CONTINUE) =>
                    it.m_payload = iterable.items[man.m_index]
        /\ (log.extra > 0) => (it.m_state = STOP /\ it.m_payload = 0)
        /\ (ipc = "returned") =>
              /\ log.converted = iterable.items
              /\ (prog = "array_impl") => (arr.placed = iterable.items)

\* C17, as a step property: m_index only increases.
C17_IndexOnlyIncreases == [][man'.m_index >= man.m_index]_vars

\* C17 witness: a list whose first item converts to the default payload is
\* iterated to its end.
C17_Witness ==
    /\ prog = "array_impl"
    /\ ipc = "returned"
    /\ iterable.kind = "list"
    /\ iterable.items = <<0, 1, 0>>
    /\ arr.placed = <<0, 1, 0>>
    /\ log.extra = 1

\* C18: when a step of the iteration is over, no reference to an item that
\* next() got from the Python iterator is still held.
C18_ItemReferenceReleased ==
    (ipc \in {"loop", "returned", "thrown"}) => log.held = 0

\* C18, what does hold: the reference is given back when convert throws,
\* and kept for every item of an iterator that converts normally.
C18_ReferenceKeptUnlessThrown ==
    (ipc \in {"loop", "returned", "thrown"} /\ Managed) =>
        log.held = IF man.m_iterator = NULLPTR THEN 0
                   ELSE Cardinality({i \in 1..Len(log.converted) :
                                        ~Throws(log.converted[i])})

\* C18, as a state to reach: an iterator of one item, converted normally,
\* whose reference is still held when the loop has ended.
C18_ReachedLeak ==
    /\ prog = "iteration_impl"
    /\ ipc = "returned"
    /\ iterable.kind = "iterator"
    /\ iterable.items = <<1>>
    /\ log.held = 1

C19_WitnessNoFormat ==
    /\ prog = "array_impl"
    /\ ipc = "thrown"
    /\ arr.format = NULLPTR
    /\ arr.got = 1
    /\ arr.released = 1

\* C19 third case, as a state to reach: sizing throws.
C19_WitnessSizing ==
    /\ prog = "array_impl"
    /\ ipc = "thrown"
    /\ man.m_iterator # NULLPTR
    /\ log.converted = <<>>
    /\ arr.released = 1

\* C20: a constructed IterableManager has exactly one of m_iterator and
\* m_fast_sequence non-null; in execute, get_size has turned a one-shot
\* iterator into a list of all its items and dropped the iterator, the size
\* it gave is m_seq_size, and the loop that returns has placed exactly that
\* many values, the items in their order.
C20_GetSizeKeepsElements ==
    /\ Managed => ((man.m_iterator = NULLPTR) # (man.m_fast_sequence = NULLPTR))
    /\ (prog = "array_impl" /\ ipc \in {"begin", "loop", "returned"}) =>
          /\ arr.size = Len(iterable.items)
          /\ (iterable.kind = "iterator") =>
                /\ man.m_iterator = NULLPTR
                /\ man.m_fast_sequence = "list"
                /\ man.fast_items = iterable.items
                /\ arr.size = man.m_seq_size
          /\ (ipc = "returned") =>
                (Len(arr.placed) = arr.size /\ arr.placed = iterable.items)

\* C20 witness: an iterator of three items has filled three places.
C20_Witness ==
    /\ prog = "array_impl"
    /\ ipc = "returned"
    /\ iterable.kind = "iterator"
    /\ iterable.items = <<2, 0, 1>>
    /\ arr.size = 3
    /\ arr.placed = <<2, 0, 1>>
    /\ man.m_iterator = NULLPTR

-----------------------------------------------------------------------------
(* strip_whitespace and the buffer (parsing.h 54-60).                       *)

\* the string has a character that is no whitespace
HasNonBlank(b) == \E i \in 1..Len(b) : ~is_white_space(b[i])

\* the range [s, e) of b neither begins nor ends with whitespace
NoOuterWhitespace(b, s, e) ==
    (s < e) => (~is_white_space(At(b, s)) /\ ~is_white_space(At(b, e - 1)))

\* C21: after strip_whitespace has run on a string at position 1 with its
\* length, for every string, the empty one and the ones made only of
\* whitespace included: start <= end, both lie within [1, 1 + length], end
\* is not below the original start, and [start, end) has no leading or
\* trailing whitespace.
C21_StripStaysInBuffer ==
    (spc = "stripped") =>
        /\ start <= end
        /\ 1 <= start /\ start <= Len(text) + 1
        /\ 1 <= end /\ end <= Len(text) + 1
        /\ NoOuterWhitespace(buf, start, end)

\* C21, the part that holds: start always lies within [1, 1 + length] on a
\* character that is no whitespace and end never lies above 1 + length; for
\* a string with a character that is no whitespace the whole of C21 holds,
\* start on its first such character and end after its last; for a string
\* without one start is on the NUL and end is at or below the original
\* start.
C21_StripOfNonBlankStaysInBuffer ==
    (spc = "stripped") =>
        /\ 1 <= start /\ start <= Len(text) + 1
        /\ end <= Len(text) + 1
        /\ ~is_white_space(At(buf, start))
        /\ \A i \in 1..(start - 1) : is_white_space(buf[i])
        /\ HasNonBlank(text) =>
              /\ start < end
              /\ 1 <= end
              /\ NoOuterWhitespace(buf, start, end)
              /\ \A i \in end..Len(text) : is_white_space(buf[i])
        /\ ~HasNonBlank(text) =>
              /\ start = Len(text) + 1
              /\ end <= 1
              /\ (text # <<>>) => end < start

\* C21, as a state to reach: a string with whitespace on both sides has
\* been stripped to the characters between.
C21_Witness ==
    /\ spc = "stripped"
    /\ text = <<" ", "1", "\t">>
    /\ start = 2
    /\ end = 3

\* C21, as a state to reach: a string made only of whitespace has been
\* stripped to a range that ends before it starts.
C21_ReachedBlankReversed ==
    /\ spc = "stripped"
    /\ text = <<" ", "\t">>
    /\ start = 3
    /\ end = 1

\* C21, as a state to reach: the empty string has been stripped and end
\* lies below the original start, a whitespace byte having preceded the
\* string in memory.
C21_ReachedBelowStart ==
    /\ spc = "stripped"
    /\ text = <<>>
    /\ start = 1
    /\ end < 1

====
